---- MODULE Spec2Model ----
(***************************************************************************)
(* Graph construction of transformer self-attention                        *)
(* (transformers_neuronx/layers/attention.py).                             *)
(*                                                                         *)
(* A tensor handle is a record [sizes, data]: its shape and its elements   *)
(* in row-major order.  The persistent K/V cache is storage that survives  *)
(* across forward passes; every pass wraps it in a fresh handle of the     *)
(* cache's fixed shape, builds the update, and stores the elements of the  *)
(* returned tensors back.  The cache layout is the default one,            *)
(* [n_positions, n_seqs, n_kv_heads, d_head].                              *)
(***************************************************************************)
EXTENDS Integers, Sequences, FiniteSets, TLC

VARIABLES
    cache_sizes,   \* shape of the persistent key cache and value cache
    key_storage,   \* elements of the key cache, row-major
    val_storage,   \* elements of the value cache, row-major
    upd,           \* the last fused_kv_update_cache call: inputs and outcome
    history,       \* the inputs of the successful updates of this session
    qkv,           \* a query_key_value call under construction
    ctx,           \* a context call under construction
    att            \* a score call or a mask call under construction

vars == <<cache_sizes, key_storage, val_storage, upd, history, qkv, ctx, att>>
cache_vars == <<cache_sizes, key_storage, val_storage, upd, history>>

(***************************************************************************)
(* Bounds of the model.                                                    *)
(***************************************************************************)
MaxPositions == 3
MaxSeqs == 2
NKvHeads == 1
DHead == 2
MaxUpdates == 2
MaxIds == 2
MaxTokens == 2
MaxHidden == 2
MaxWidth == 5
MaxNHead == 4
MaxNKvHead == 2
MaxCtxTokens == 2
MaxCtxPositions == 2
ScoreSpan == 1

None == "None"

(***************************************************************************)
(* Tensor handles.                                                         *)
(***************************************************************************)
RECURSIVE Numel(_)
Numel(sizes) == IF sizes = <<>> THEN 1 ELSE Head(sizes) * Numel(Tail(sizes))

Tensor(sizes, data) == [sizes |-> sizes, data |-> data]

Rank(t) == Len(t.sizes)

MaxOf(S) == CHOOSE x \in S : \A y \in S : y <= x

\* hlo.reshape: a new handle of the given shape over the same elements.
hlo_reshape(t, sizes) == Tensor(sizes, t.data)

\* hlo.transpose(t, 0, 1) of a rank-2 tensor.
hlo_transpose(t) ==
    LET r == t.sizes[1]
        c == t.sizes[2]
    IN  Tensor(<<c, r>>,
               [k \in 1..(r * c) |->
                   t.data[((k - 1) % r) * c + ((k - 1) \div r) + 1]])

(***************************************************************************)
(* Scatter along dimension 0 with an overwrite combiner                    *)
(* (scatter_dims_to_operand_dims=[0], inserted_window_dims=[0], the        *)
(* remaining dimensions are the update window): for every scatter index i  *)
(* the window updates[i, ...] replaces operand[indices[i], ...].  An index *)
(* outside the operand is skipped; the last write to a row wins.  A        *)
(* scatter index with no row in updates (more indices than update rows)    *)
(* reads outside the update tensor: what it reads is `junk`.               *)
(***************************************************************************)
ScatterData(operand, indices, updates, junk) ==
    LET wop == Numel(Tail(operand.sizes))
        wup == Numel(Tail(updates.sizes))
        n   == Len(indices)
    IN  [k \in 1..Len(operand.data) |->
            LET r    == (k - 1) \div wop
                c    == (k - 1) % wop
                hits == {i \in 1..n : indices[i] = r /\ c < wup}
            IN  IF hits = {} THEN operand.data[k]
                ELSE LET i == MaxOf(hits)
                     IN  IF i <= updates.sizes[1]
                         THEN updates.data[(i - 1) * wup + c + 1]
                         ELSE junk]

\* hlo.scatter: the result has the operand's shape.
hlo_scatter(operand, indices, updates) ==
    Tensor(operand.sizes, ScatterData(operand, indices, updates, 0))

\* hlo.reshape_and_cache: the rows keys_r[i] and vals_r[i] are written to the
\* flat cache row indices[i] of the key cache and the value cache; both
\* results come back in the cache's own shape.
hlo_reshape_and_cache(keys_r, vals_r, cached_keys, cached_vals, indices) ==
    LET rows == cached_keys.sizes[1] * cached_keys.sizes[2]
        flat == <<rows, cached_keys.sizes[3], cached_keys.sizes[4]>>
        k    == hlo_scatter(hlo_reshape(cached_keys, flat), indices.data, keys_r)
        v    == hlo_scatter(hlo_reshape(cached_vals, flat), indices.data, vals_r)
    IN  <<hlo_reshape(k, cached_keys.sizes), hlo_reshape(v, cached_vals.sizes)>>

(***************************************************************************)
(* attention_utils: flat scatter indices in the cache's row-major          *)
(* addressing, row(position, sequence) = position * n_seqs + sequence.     *)
(* cache_ids has shape [n_active_tokens, n_active_seqs].                   *)
(***************************************************************************)
\* Decode: active sequence b is cache sequence b.
update_indices_decode(cached_keys, cache_ids) ==
    LET n_seqs == cached_keys.sizes[2]
        b_dim  == cache_ids.sizes[2]
    IN  Tensor(cache_ids.sizes,
               [k \in 1..Len(cache_ids.data) |->
                   cache_ids.data[k] * n_seqs + ((k - 1) % b_dim)])

\* Prefill: active sequence b is cache sequence start_ids[b].
update_indices_context(cached_keys, cache_ids, start_ids) ==
    LET n_seqs == cached_keys.sizes[2]
        b_dim  == cache_ids.sizes[2]
    IN  Tensor(cache_ids.sizes,
               [k \in 1..Len(cache_ids.data) |->
                   cache_ids.data[k] * n_seqs + start_ids[((k - 1) % b_dim) + 1]])

\* Speculative: as for prefill, for a short run of positions.
update_indices_speculative(cached_keys, cache_ids, start_ids) ==
    LET n_seqs == cached_keys.sizes[2]
        b_dim  == cache_ids.sizes[2]
    IN  Tensor(cache_ids.sizes,
               [k \in 1..Len(cache_ids.data) |->
                   cache_ids.data[k] * n_seqs + start_ids[((k - 1) % b_dim) + 1]])

(***************************************************************************)
(* update_cache: Cache[I] = X, one Scatter on the cache as it is, with     *)
(* update_window_dims=[1,2,3]; the result is declared with the cache's     *)
(* shape.                                                                  *)
(***************************************************************************)
\* update_cache with every id taken one position too far.
update_cache_off_by_one(cache, cache_ids, values, junk) ==
    Tensor(cache.sizes,
           ScatterData(cache, [i \in 1..Len(cache_ids.data) |-> cache_ids.data[i] + 1],
                       values, junk))

update_cache(cache, cache_ids, values, junk) ==
    Tensor(cache.sizes, ScatterData(cache, cache_ids.data, values, junk))

(***************************************************************************)
(* fused_kv_update_cache.                                                  *)
(***************************************************************************)
Failure(type, detail) ==
    [status |-> type, detail |-> detail, strategy |-> None,
     keys |-> None, vals |-> None]

Success(strategy, k, v) ==
    [status |-> "ok", detail |-> None, strategy |-> strategy,
     keys |-> k, vals |-> v]

use_2d_cache_ids(cache_ids) == Len(cache_ids.sizes) > 1

\* The three conditions of the 2-D dispatch, in the order they are tested.
DecodeCond(n_active_tokens, n_positions, n_seqs, n_active_seqs) ==
    n_active_tokens = 1 /\ n_seqs = n_active_seqs

PrefillCond(n_active_tokens, n_positions, n_seqs, n_active_seqs) ==
    n_active_tokens = n_positions /\ n_seqs > n_active_seqs

\* The speculative condition with the full cache length let in.
SpeculativeCond_inclusive(n_active_tokens, n_positions, n_seqs, n_active_seqs) ==
    n_active_tokens > 1 /\ n_active_tokens <= n_positions

SpeculativeCond(n_active_tokens, n_positions, n_seqs, n_active_seqs) ==
    n_active_tokens > 1 /\ n_active_tokens < n_positions

\* The sizes the 2-D path reads off its arguments, and the flattened caches.
Sizes2D(cached_keys, cached_vals, cache_ids, keys, vals, start_ids) ==
    LET n_positions    == cached_keys.sizes[1]
        n_seqs         == cached_keys.sizes[2]
        kv_hidden_size == cached_keys.sizes[3] * cached_keys.sizes[4]
    IN  [cached_keys     |-> cached_keys,
         cached_vals     |-> cached_vals,
         cache_ids       |-> hlo_transpose(cache_ids),
         keys            |-> keys,
         vals            |-> vals,
         start_ids       |-> start_ids,
         n_positions     |-> n_positions,
         n_seqs          |-> n_seqs,
         n_active_tokens |-> keys.sizes[1],
         n_active_seqs   |-> keys.sizes[2],
         kv_hidden_size  |-> kv_hidden_size,
         cached_keys_r   |-> hlo_reshape(cached_keys,
                                <<n_positions * n_seqs, kv_hidden_size>>),
         cached_vals_r   |-> hlo_reshape(cached_vals,
                                <<n_positions * n_seqs, kv_hidden_size>>)]

\* The decode branch scattering at the positions themselves, not at the flat
\* row offsets computed from them.
DecodeBranch_raw_ids(c) ==
    LET keys_r  == hlo_reshape(c.keys, <<c.n_seqs, c.kv_hidden_size>>)
        vals_r  == hlo_reshape(c.vals, <<c.n_seqs, c.kv_hidden_size>>)
        indices == hlo_transpose(c.cache_ids)
    IN  Success("decode",
                hlo_scatter(c.cached_keys_r, indices.data, keys_r),
                hlo_scatter(c.cached_vals_r, indices.data, vals_r))

\* n_active_tokens == 1 and n_seqs == n_active_seqs.
DecodeBranch(c) ==
    LET keys_r  == hlo_reshape(c.keys, <<c.n_seqs, c.kv_hidden_size>>)
        vals_r  == hlo_reshape(c.vals, <<c.n_seqs, c.kv_hidden_size>>)
        indices == hlo_transpose(update_indices_decode(c.cached_keys, c.cache_ids))
    IN  Success("decode",
                hlo_scatter(c.cached_keys_r, indices.data, keys_r),
                hlo_scatter(c.cached_vals_r, indices.data, vals_r))

\* The prefill branch with the decode index helper, which ignores start_ids.
PrefillBranch_decode_indices(c) ==
    LET keys_r  == hlo_reshape(c.keys, <<c.n_active_tokens, c.kv_hidden_size>>)
        vals_r  == hlo_reshape(c.vals, <<c.n_active_tokens, c.kv_hidden_size>>)
        indices == update_indices_decode(c.cached_keys, c.cache_ids)
    IN  IF c.n_active_seqs # 1
        THEN Failure("AssertionError", "n_active_seqs is expected to be 1")
        ELSE Success("prefill",
                     hlo_scatter(c.cached_keys_r, indices.data, keys_r),
                     hlo_scatter(c.cached_vals_r, indices.data, vals_r))

\* n_active_tokens == n_positions and n_seqs > n_active_seqs.
PrefillBranch(c) ==
    LET keys_r  == hlo_reshape(c.keys, <<c.n_active_tokens, c.kv_hidden_size>>)
        vals_r  == hlo_reshape(c.vals, <<c.n_active_tokens, c.kv_hidden_size>>)
        indices == update_indices_context(c.cached_keys, c.cache_ids, c.start_ids)
    IN  IF c.n_active_seqs # 1
        THEN Failure("AssertionError", "n_active_seqs is expected to be 1")
        ELSE Success("prefill",
                     hlo_scatter(c.cached_keys_r, indices.data, keys_r),
                     hlo_scatter(c.cached_vals_r, indices.data, vals_r))

\* The speculative branch writing the new keys into both caches.
SpeculativeBranch_keys_twice(c) ==
    LET n_active_tokens == c.keys.sizes[1]
        batch_size      == c.keys.sizes[2]
        n_head          == c.keys.sizes[3]
        d_head          == c.keys.sizes[4]
        keys_r  == hlo_reshape(c.keys, <<n_active_tokens * batch_size, n_head, d_head>>)
        indices == update_indices_speculative(c.cached_keys, c.cache_ids, c.start_ids)
        kv      == hlo_reshape_and_cache(keys_r, keys_r, c.cached_keys, c.cached_vals, indices)
    IN  Success("speculative", kv[1], kv[2])

\* n_active_tokens > 1 and n_active_tokens < n_positions.
SpeculativeBranch(c) ==
    LET n_active_tokens == c.keys.sizes[1]
        batch_size      == c.keys.sizes[2]
        n_head          == c.keys.sizes[3]
        d_head          == c.keys.sizes[4]
        keys_r  == hlo_reshape(c.keys, <<n_active_tokens * batch_size, n_head, d_head>>)
        vals_r  == hlo_reshape(c.vals, <<n_active_tokens * batch_size, n_head, d_head>>)
        indices == update_indices_speculative(c.cached_keys, c.cache_ids, c.start_ids)
        kv      == hlo_reshape_and_cache(keys_r, vals_r, c.cached_keys, c.cached_vals, indices)
    IN  Success("speculative", kv[1], kv[2])

\* The else branch: NotImplementedError, its message formats the four sizes.
UnimplementedBranch(c) ==
    Failure("NotImplementedError",
            [n_active_tokens |-> c.n_active_tokens, n_positions |-> c.n_positions,
             n_seqs |-> c.n_seqs, n_active_seqs |-> c.n_active_seqs])

\* The dispatch with a default path: unmatched sizes get the caches back.
Dispatch2D_fallback(c) ==
    IF DecodeCond(c.n_active_tokens, c.n_positions, c.n_seqs, c.n_active_seqs)
    THEN DecodeBranch(c)
    ELSE IF PrefillCond(c.n_active_tokens, c.n_positions, c.n_seqs, c.n_active_seqs)
    THEN PrefillBranch(c)
    ELSE IF SpeculativeCond(c.n_active_tokens, c.n_positions, c.n_seqs, c.n_active_seqs)
    THEN SpeculativeBranch(c)
    ELSE Success("default", c.cached_keys, c.cached_vals)

Dispatch2D(c) ==
    IF DecodeCond(c.n_active_tokens, c.n_positions, c.n_seqs, c.n_active_seqs)
    THEN DecodeBranch(c)
    ELSE IF PrefillCond(c.n_active_tokens, c.n_positions, c.n_seqs, c.n_active_seqs)
    THEN PrefillBranch(c)
    ELSE IF SpeculativeCond(c.n_active_tokens, c.n_positions, c.n_seqs, c.n_active_seqs)
    THEN SpeculativeBranch(c)
    ELSE UnimplementedBranch(c)

fused_kv_update_cache(cached_keys, cached_vals, cache_ids, keys, vals, start_ids, junk) ==
    IF ~use_2d_cache_ids(cache_ids)
    THEN Success("1d",
                 update_cache(cached_keys, cache_ids, keys, junk),
                 update_cache(cached_vals, cache_ids, vals, junk))
    ELSE LET c == Sizes2D(cached_keys, cached_vals, cache_ids, keys, vals, start_ids)
         IN  IF c.cache_ids.sizes[1] # c.n_active_tokens
             THEN Failure("AssertionError",
                          "inconsistent sizes between cache_ids and values")
             ELSE Dispatch2D(c)

(***************************************************************************)
(* The inputs of one update call.  New keys and values carry contents that *)
(* identify the call and the element, so that a row of the cache tells     *)
(* which row of which call it holds.  The cache starts zeroed.             *)
(***************************************************************************)
KeyData(g, n) == [j \in 1..n |-> g * 1000 + j]
ValData(g, n) == [j \in 1..n |-> g * 1000 + 500 + j]

Injective(f) == \A i, j \in DOMAIN f : i # j => f[i] # f[j]

ActiveKV(g, n_active_tokens, n_active_seqs) ==
    LET sizes == <<n_active_tokens, n_active_seqs, cache_sizes[3], cache_sizes[4]>>
    IN  [keys |-> Tensor(sizes, KeyData(g, Numel(sizes))),
         vals |-> Tensor(sizes, ValData(g, Numel(sizes)))]

\* 1-D cache_ids: distinct positions; the new keys/values are
\* [n_active_tokens, n_active_seqs, n_kv_heads, d_head].
Inputs1D(g) ==
    { [cache_ids |-> Tensor(<<Len(ids)>>, ids),
       keys      |-> ActiveKV(g, t, b).keys,
       vals      |-> ActiveKV(g, t, b).vals,
       start_ids |-> <<>>,
       junk      |-> junk] :
         ids \in { q \in UNION { [1..l -> 0..(cache_sizes[1] - 1)] : l \in 1..MaxIds } :
                     Injective(q) },
         t \in 1..MaxIds, b \in 1..cache_sizes[2], junk \in {0, 7} } 

\* 2-D cache_ids [n_active_seqs, n_ids]: for every active sequence a run of
\* consecutive positions from a base.  n_ids is n_active_tokens, or one more.
CacheIds2D(bases, n_ids) ==
    Tensor(<<Len(bases), n_ids>>,
           [k \in 1..(Len(bases) * n_ids) |->
               bases[((k - 1) \div n_ids) + 1] + ((k - 1) % n_ids)])

Bases(b, n_ids) ==
    LET top == IF cache_sizes[1] > n_ids THEN cache_sizes[1] - n_ids ELSE 0
    IN  [1..b -> 0..top]

StartIds(b) ==
    IF b <= cache_sizes[2]
    THEN { q \in [1..b -> 0..(cache_sizes[2] - 1)] : Injective(q) }
    ELSE { [i \in 1..b |-> 0] }

Inputs2D(g) ==
    UNION { { [cache_ids |-> CacheIds2D(bases, t + more),
               keys      |-> ActiveKV(g, t, b).keys,
               vals      |-> ActiveKV(g, t, b).vals,
               start_ids |-> start_ids,
               junk      |-> 0] :
                 bases \in Bases(b, t + more), start_ids \in StartIds(b) } :
            t \in 1..(cache_sizes[1] + 1), b \in 1..MaxSeqs, more \in {0, 1} }

UpdateInputs(g) ==
    { i \in Inputs1D(g) : i.junk = 0 \/ i.cache_ids.sizes[1] > i.keys.sizes[1] }
    \cup Inputs2D(g)

NoCall == [status |-> None]

CacheInit ==
    /\ cache_sizes \in { <<p, s, NKvHeads, DHead>> : p \in 1..MaxPositions, s \in 1..MaxSeqs }
    /\ key_storage = [k \in 1..Numel(cache_sizes) |-> 0]
    /\ val_storage = [k \in 1..Numel(cache_sizes) |-> 0]
    /\ upd = NoCall
    /\ history = <<>>
    /\ qkv = NoCall
    /\ ctx = NoCall
    /\ att = NoCall

\* One forward pass's cache update.  An exception ends the pass and the
\* session with it; a success stores the returned elements.
FusedKvUpdateCache ==
    /\ upd.status \in {None, "ok"}
    /\ Len(history) < MaxUpdates
    /\ \E inp \in UpdateInputs(Len(history) + 1) :
         LET res == fused_kv_update_cache(Tensor(cache_sizes, key_storage),
                                          Tensor(cache_sizes, val_storage),
                                          inp.cache_ids, inp.keys, inp.vals,
                                          inp.start_ids, inp.junk)
         IN  /\ upd' = [status    |-> res.status,
                        detail    |-> res.detail,
                        strategy  |-> res.strategy,
                        cache_ids |-> inp.cache_ids,
                        keys      |-> inp.keys,
                        vals      |-> inp.vals,
                        start_ids |-> inp.start_ids,
                        junk      |-> inp.junk,
                        ret_keys  |-> res.keys,
                        ret_vals  |-> res.vals,
                        pre_keys  |-> key_storage,
                        pre_vals  |-> val_storage]
             /\ IF res.status = "ok"
                THEN /\ key_storage' = res.keys.data
                     /\ val_storage' = res.vals.data
                     /\ history' = Append(history, inp)
                ELSE UNCHANGED <<key_storage, val_storage, history>>
             /\ UNCHANGED <<cache_sizes, qkv, ctx, att>>

Init == CacheInit

Next == FusedKvUpdateCache

Spec == Init /\ [][Next]_vars

(***************************************************************************)
(* Vocabulary of the cache-update properties.                              *)
(***************************************************************************)
Called == upd.status # None

KvWidth == cache_sizes[3] * cache_sizes[4]

\* Row (position p, sequence s) of a cache given by its elements.
CacheRow(data, p, s) ==
    [c \in 1..KvWidth |-> data[(p * cache_sizes[2] + s) * KvWidth + c]]

\* Row (token t, active sequence b) of new keys or values.
ActiveRow(x, t, b) ==
    [c \in 1..KvWidth |-> x.data[(t * x.sizes[2] + b) * KvWidth + c]]

Positions == 0..(cache_sizes[1] - 1)
Seqs == 0..(cache_sizes[2] - 1)

UpdNActiveTokens == upd.keys.sizes[1]
UpdNActiveSeqs == upd.keys.sizes[2]
Upd2D == Called /\ Len(upd.cache_ids.sizes) = 2
Upd1D == Called /\ Len(upd.cache_ids.sizes) = 1

\* Position that 2-D cache_ids [n_active_seqs, n_ids] give token t of sequence b.
IdAt(ids, b, t) == ids.data[b * ids.sizes[2] + t + 1]

UpdMatchesNone ==
    /\ ~DecodeCond(UpdNActiveTokens, cache_sizes[1], cache_sizes[2], UpdNActiveSeqs)
    /\ ~PrefillCond(UpdNActiveTokens, cache_sizes[1], cache_sizes[2], UpdNActiveSeqs)
    /\ ~SpeculativeCond(UpdNActiveTokens, cache_sizes[1], cache_sizes[2], UpdNActiveSeqs)

UpdUnimplemented ==
    /\ upd.status = "NotImplementedError"
    /\ upd.detail = [n_active_tokens |-> UpdNActiveTokens, n_positions |-> cache_sizes[1],
                     n_seqs |-> cache_sizes[2], n_active_seqs |-> UpdNActiveSeqs]
    /\ key_storage = upd.pre_keys
    /\ val_storage = upd.pre_vals

\* C1 as stated: a 2-D update whose four sizes match none of the three
\* strategies fails with the unimplemented error naming the four sizes and
\* returns no updated cache.
C1_Original == (Upd2D /\ UpdMatchesNone) => UpdUnimplemented

\* C1, amended: a 2-D update whose four sizes match none of the three
\* strategies never returns an updated cache; it fails with the unimplemented
\* error naming the four sizes when cache_ids carry n_active_tokens ids per
\* sequence, and with the size-consistency assertion, raised before the
\* dispatch, when they do not.
C1_NoDefaultPath ==
    (Upd2D /\ UpdMatchesNone) =>
        /\ upd.status # "ok"
        /\ key_storage = upd.pre_keys /\ val_storage = upd.pre_vals
        /\ IF upd.cache_ids.sizes[2] = UpdNActiveTokens
           THEN UpdUnimplemented
           ELSE upd.status = "AssertionError"

C1_Witness == Upd2D /\ UpdMatchesNone /\ UpdUnimplemented /\ UpdNActiveTokens = 1

\* C2: whatever strategy a successful update took, the returned key cache and
\* value cache have exactly the shape of the caches passed in.
C2_ShapePreserved ==
    (Called /\ upd.status = "ok") =>
        (upd.ret_keys.sizes = cache_sizes /\ upd.ret_vals.sizes = cache_sizes)

TokenAt1D(p) == CHOOSE t \in 0..(UpdNActiveTokens - 1) : upd.cache_ids.data[t + 1] = p

Addressed1D(p, s) ==
    /\ s < UpdNActiveSeqs
    /\ \E t \in 0..(UpdNActiveTokens - 1) : upd.cache_ids.data[t + 1] = p

C4_PrefillFrame ==
    (/\ Upd2D
     /\ upd.cache_ids.sizes[2] = UpdNActiveTokens
     /\ UpdNActiveTokens = cache_sizes[1]
     /\ UpdNActiveSeqs = 1 /\ cache_sizes[2] > 1) =>
        /\ upd.status = "ok"
        /\ \A p \in Positions, s \in Seqs :
             IF s = upd.start_ids[1]
             THEN \E t \in 0..(UpdNActiveTokens - 1) :
                     /\ IdAt(upd.cache_ids, 0, t) = p
                     /\ CacheRow(upd.ret_keys.data, p, s) = ActiveRow(upd.keys, t, 0)
                     /\ CacheRow(upd.ret_vals.data, p, s) = ActiveRow(upd.vals, t, 0)
                     /\ CacheRow(upd.ret_keys.data, p, s) # CacheRow(upd.pre_keys, p, s)
             ELSE /\ CacheRow(upd.ret_keys.data, p, s) = CacheRow(upd.pre_keys, p, s)
                  /\ CacheRow(upd.ret_vals.data, p, s) = CacheRow(upd.pre_vals, p, s)

C4_Witness ==
    /\ Upd2D /\ upd.status = "ok" /\ upd.strategy = "prefill"
    /\ cache_sizes[1] = 3 /\ cache_sizes[2] = 2 /\ upd.start_ids[1] = 1
    /\ Len(history) = 2
    /\ CacheRow(key_storage, 2, 1) = ActiveRow(upd.keys, 2, 0)
    /\ CacheRow(key_storage, 2, 0) = CacheRow(upd.pre_keys, 2, 0)
    /\ CacheRow(upd.pre_keys, 2, 0) # CacheRow(upd.pre_keys, 0, 0)

AddressedRows(inp) ==
    LET t_dim == inp.keys.sizes[1]
        b_dim == inp.keys.sizes[2]
    IN  IF Len(inp.cache_ids.sizes) = 1
        THEN { <<inp.cache_ids.data[i], s>> : i \in 1..Len(inp.cache_ids.data),
                                             s \in 0..(b_dim - 1) }
        ELSE IF t_dim = 1 /\ b_dim = cache_sizes[2]
        THEN { <<IdAt(inp.cache_ids, b, 0), b>> : b \in 0..(b_dim - 1) }
        ELSE { <<IdAt(inp.cache_ids, b, t), inp.start_ids[b + 1]>> :
                   b \in 0..(b_dim - 1), t \in 0..(t_dim - 1) }

\* The caches after the update `inp` of caches with elements kdata and vdata.
ApplyUpdate(kdata, vdata, inp) ==
    fused_kv_update_cache(Tensor(cache_sizes, kdata), Tensor(cache_sizes, vdata),
                          inp.cache_ids, inp.keys, inp.vals, inp.start_ids, inp.junk)

\* C6: two successful updates A then B that address disjoint sets of rows
\* leave the key and value caches that B then A leaves.
C6_DisjointCommute ==
    (/\ Len(history) = 2
     /\ AddressedRows(history[1]) \cap AddressedRows(history[2]) = {}) =>
        LET zero   == [k \in 1..Numel(cache_sizes) |-> 0]
            first  == ApplyUpdate(zero, zero, history[2])
            second == ApplyUpdate(first.keys.data, first.vals.data, history[1])
        IN  /\ first.status = "ok" /\ second.status = "ok"
            /\ key_storage = second.keys.data
            /\ val_storage = second.vals.data

C6_Witness ==
    /\ Len(history) = 2
    /\ AddressedRows(history[1]) \cap AddressedRows(history[2]) = {}
    /\ Len(history[1].cache_ids.sizes) = 1
    /\ upd.strategy = "speculative"
    /\ \A k \in 1..Len(key_storage) : key_storage[k] # 0

\* The number of ids cache_ids carry per sequence differs from the number
\* of active tokens of the new keys and values.
UpdCountMismatch ==
    /\ Called
    /\ (IF Len(upd.cache_ids.sizes) = 1 THEN upd.cache_ids.sizes[1]
        ELSE upd.cache_ids.sizes[2]) # UpdNActiveTokens

\* C14: a cache update whose cache ids do not carry exactly one index per
\* active token fails at graph construction, for 1-D as for 2-D cache ids,
\* and returns no updated cache.
C14_CountMismatchFails ==
    UpdCountMismatch =>
        /\ upd.status # "ok"
        /\ key_storage = upd.pre_keys
        /\ val_storage = upd.pre_vals

\* How many of the three 2-D strategy conditions hold for the sizes.
StrategiesMatching(t, p, s, a) ==
    (IF DecodeCond(t, p, s, a) THEN {"decode"} ELSE {})
    \cup (IF PrefillCond(t, p, s, a) THEN {"prefill"} ELSE {})
    \cup (IF SpeculativeCond(t, p, s, a) THEN {"speculative"} ELSE {})

\* C16: the three 2-D strategy conditions are mutually exclusive: for all
\* n_active_tokens, n_positions, n_seqs and n_active_seqs at most one of
\* them holds, and the strategy an update took is the one whose condition
\* holds, whatever the order of the tests.
C16_StrategiesExclusive ==
    /\ \A t, p \in 0..(MaxPositions + 1), s, a \in 0..(MaxSeqs + 1) :
           Cardinality(StrategiesMatching(t, p, s, a)) <= 1
    /\ (Upd2D /\ upd.status = "ok") =>
           StrategiesMatching(UpdNActiveTokens, cache_sizes[1], cache_sizes[2],
                              UpdNActiveSeqs) = {upd.strategy}

C16_Witness ==
    /\ Upd2D
    /\ upd.status = "ok"
    /\ upd.strategy = "prefill"
    /\ UpdNActiveTokens > 1
    /\ Len(history) = 2
    /\ history[1].keys.sizes[1] = 1
    /\ Len(history[1].cache_ids.sizes) = 2

(***************************************************************************)
(* query_key_value: the self-attention input projections of one shard.     *)
(*                                                                         *)
(* Graph primitives used by it.                                            *)
(***************************************************************************)
RECURSIVE SumTo(_, _)
SumTo(f, n) == IF n = 0 THEN 0 ELSE f[n] + SumTo(f, n - 1)

\* hlo.transpose210 of a rank-3 tensor [a, b, c]: the result is [c, b, a].
hlo_transpose210(t) ==
    LET a == t.sizes[1]
        b == t.sizes[2]
        c == t.sizes[3]
    IN  Tensor(<<c, b, a>>,
               [o \in 1..(a * b * c) |->
                   LET i == (o - 1) % a
                       j == ((o - 1) \div a) % b
                       k == (o - 1) \div (a * b)
                   IN  t.data[(i * b + j) * c + k + 1]])

\* hlo.dot00_add1: lhs [h, n] and rhs [h, w] contracted over dimension 0 of
\* both, the bias [w] added along dimension 1 of the result [n, w].
hlo_dot00_add1(lhs, rhs, bias) ==
    LET h == lhs.sizes[1]
        n == lhs.sizes[2]
        w == rhs.sizes[2]
    IN  Tensor(<<n, w>>,
               [o \in 1..(n * w) |->
                   LET r == (o - 1) \div w
                       c == (o - 1) % w
                   IN  SumTo([x \in 1..h |-> lhs.data[(x - 1) * n + r + 1]
                                               * rhs.data[(x - 1) * w + c + 1]], h)
                       + bias.data[c + 1]])

\* hlo.slice_along(t, -1, limit, start) of a rank-2 tensor: the columns
\* start .. limit-1.
hlo_slice_along(t, limit, start) ==
    LET n == t.sizes[1]
        w == t.sizes[2]
        k == limit - start
    IN  Tensor(<<n, k>>,
               [o \in 1..(n * k) |->
                   t.data[((o - 1) \div k) * w + start + ((o - 1) % k) + 1]])

\* hlo.all_gather(.., dim=1, tp_degree): the shards' [n, w] tensors side by
\* side, shard 0 first.  parts[r] is the tensor of shard r.
hlo_all_gather(parts, tp_degree) ==
    LET n == parts[0].sizes[1]
        w == parts[0].sizes[2]
    IN  Tensor(<<n, w * tp_degree>>,
               [o \in 1..(n * w * tp_degree) |->
                   LET r == (o - 1) \div (w * tp_degree)
                       c == (o - 1) % (w * tp_degree)
                   IN  parts[c \div w].data[r * w + (c % w) + 1]])

\* hlo.dynamic_slice_along(t, dim=0, size, start) of a rank-2 tensor.
hlo_dynamic_slice_along(t, size, start) ==
    LET w == t.sizes[2]
    IN  Tensor(<<size, w>>, [o \in 1..(size * w) |-> t.data[start * w + o]])

(***************************************************************************)
(* The arguments of a call.  Shard r holds its own slices of the weights;  *)
(* the contents identify the projection, the shard and the element.  The   *)
(* fused weight and bias of a shard are its Q, K and V weights and biases  *)
(* side by side, in that order.                                            *)
(***************************************************************************)
FUSED_QKV_TP_FACTOR == 3

\* n_head=None, the default: no integer head count was passed.
NoHead == -1

ProjWeight(which, rank, hidden_size, width) ==
    Tensor(<<hidden_size, width>>,
           [j \in 1..(hidden_size * width) |-> which * 100 + rank * 1000 + j])

ProjBias(which, rank, width) ==
    Tensor(<<width>>, [j \in 1..width |-> which * 10 + rank * 40 + j])

ConcatCols(x, y) ==
    LET h  == x.sizes[1]
        wx == x.sizes[2]
        wy == y.sizes[2]
    IN  Tensor(<<h, wx + wy>>,
               [o \in 1..(h * (wx + wy)) |->
                   LET r == (o - 1) \div (wx + wy)
                       c == (o - 1) % (wx + wy)
                   IN  IF c < wx THEN x.data[r * wx + c + 1]
                       ELSE y.data[r * wy + (c - wx) + 1]])

HiddenTensor(inp) ==
    Tensor(<<inp.n_seqs, inp.n_active_tokens, inp.hidden_size>>,
           [j \in 1..(inp.n_seqs * inp.n_active_tokens * inp.hidden_size) |-> j])

QkvArgs(inp, rank) ==
    LET wq == ProjWeight(1, rank, inp.hidden_size, inp.width)
        wk == ProjWeight(2, rank, inp.hidden_size, inp.kv_width)
        wv == ProjWeight(3, rank, inp.hidden_size, inp.kv_width)
        bq == ProjBias(1, rank, inp.width)
        bk == ProjBias(2, rank, inp.kv_width)
        bv == ProjBias(3, rank, inp.kv_width)
    IN  [hidden   |-> HiddenTensor(inp),
         q_weight |-> IF inp.fuse_qkv THEN ConcatCols(ConcatCols(wq, wk), wv) ELSE wq,
         q_bias   |-> IF inp.fuse_qkv
                      THEN Tensor(<<inp.width + 2 * inp.kv_width>>, bq.data \o bk.data \o bv.data)
                      ELSE bq,
         k_weight |-> wk, k_bias |-> bk,
         v_weight |-> wv, v_bias |-> bv,
         d_head   |-> inp.d_head,
         fuse_qkv |-> inp.fuse_qkv,
         shard_over_batch |-> inp.shard_over_batch,
         n_head   |-> inp.n_head,
         n_kv_head |-> inp.n_kv_head]

(***************************************************************************)
(* The body of query_key_value, in the order of its statements.            *)
(***************************************************************************)
\* From the top to hidden_r: the sizes, the transpose and the reshape.
qkv_prologue(a) ==
    LET n_seqs          == a.hidden.sizes[1]
        n_active_tokens == a.hidden.sizes[2]
        hidden          == hlo_transpose210(a.hidden)
        hidden_size     == a.q_weight.sizes[1]
        width           == a.q_weight.sizes[2]
        hidden_size_tp  == IF a.fuse_qkv THEN width \div FUSED_QKV_TP_FACTOR ELSE width
    IN  [n_kv_head         |-> IF a.n_kv_head > 0 THEN a.n_kv_head ELSE a.n_head,
         n_seqs            |-> n_seqs,
         n_active_tokens   |-> n_active_tokens,
         hidden_size_tp    |-> hidden_size_tp,
         kv_hidden_size_tp |-> IF a.fuse_qkv THEN hidden_size_tp ELSE a.k_weight.sizes[2],
         n_heads_tp        |-> hidden_size_tp \div a.d_head,
         hidden_r          |-> hlo_reshape(hidden, <<hidden_size, n_active_tokens * n_seqs>>),
         ops               |-> <<"transpose210", "reshape">>]

\* The fused split with the K chunk cut from the start of the fused output.
qkv_project_k_from_zero(a, pro) ==
    IF a.fuse_qkv
    THEN LET active_qkv == hlo_dot00_add1(pro.hidden_r, a.q_weight, a.q_bias)
             slice_lim  == active_qkv.sizes[2] \div FUSED_QKV_TP_FACTOR
         IN  [active_q |-> hlo_slice_along(active_qkv, slice_lim, 0),
              active_k |-> hlo_slice_along(active_qkv, slice_lim, 0),
              active_v |-> hlo_slice_along(active_qkv, 3 * slice_lim, 2 * slice_lim),
              fused_width |-> active_qkv.sizes[2],
              slices   |-> <<<<0, slice_lim>>, <<0, slice_lim>>,
                             <<2 * slice_lim, 3 * slice_lim>>>>,
              ops      |-> <<"dot00_add1", "slice_along", "slice_along", "slice_along">>]
    ELSE [active_q |-> hlo_dot00_add1(pro.hidden_r, a.q_weight, a.q_bias),
          active_k |-> hlo_dot00_add1(pro.hidden_r, a.k_weight, a.k_bias),
          active_v |-> hlo_dot00_add1(pro.hidden_r, a.v_weight, a.v_bias),
          fused_width |-> 0,
          slices   |-> <<>>,
          ops      |-> <<"dot00_add1", "dot00_add1", "dot00_add1">>]

\* The projections: one fused matmul split in three, or three matmuls.
\* slices records the <<start, limit>> of each chunk.
qkv_project(a, pro) ==
    IF a.fuse_qkv
    THEN LET active_qkv == hlo_dot00_add1(pro.hidden_r, a.q_weight, a.q_bias)
             slice_lim  == active_qkv.sizes[2] \div FUSED_QKV_TP_FACTOR
         IN  [active_q |-> hlo_slice_along(active_qkv, slice_lim, 0),
              active_k |-> hlo_slice_along(active_qkv, 2 * slice_lim, slice_lim),
              active_v |-> hlo_slice_along(active_qkv, 3 * slice_lim, 2 * slice_lim),
              fused_width |-> active_qkv.sizes[2],
              slices   |-> <<<<0, slice_lim>>, <<slice_lim, 2 * slice_lim>>,
                             <<2 * slice_lim, 3 * slice_lim>>>>,
              ops      |-> <<"dot00_add1", "slice_along", "slice_along", "slice_along">>]
    ELSE [active_q |-> hlo_dot00_add1(pro.hidden_r, a.q_weight, a.q_bias),
          active_k |-> hlo_dot00_add1(pro.hidden_r, a.k_weight, a.k_bias),
          active_v |-> hlo_dot00_add1(pro.hidden_r, a.v_weight, a.v_bias),
          fused_width |-> 0,
          slices   |-> <<>>,
          ops      |-> <<"dot00_add1", "dot00_add1", "dot00_add1">>]

QkvFailure(type, ops) ==
    [status |-> type, active_q |-> None, active_k |-> None, active_v |-> None,
     ops |-> ops]

QkvSuccess(q, k, v, ops) ==
    [status |-> "ok", active_q |-> q, active_k |-> k, active_v |-> v, ops |-> ops]

\* shard over head: the repeat factor, its assertion, the head reshapes.
qkv_shard_over_head(a, pro, proj) ==
    LET n_repeats == pro.hidden_size_tp \div pro.kv_hidden_size_tp
    IN  IF pro.n_heads_tp < n_repeats
        THEN QkvFailure("AssertionError", <<>>)
        ELSE IF n_repeats = 0
        THEN QkvFailure("ZeroDivisionError", <<>>)
        ELSE IF pro.n_heads_tp % n_repeats # 0
        THEN QkvFailure("AssertionError", <<>>)
        ELSE LET n_kv_heads_tp   == pro.n_heads_tp \div n_repeats
                 active_q_sizes  == <<pro.n_active_tokens, pro.n_seqs, pro.n_heads_tp, a.d_head>>
                 active_kv_sizes == <<pro.n_active_tokens, pro.n_seqs, n_kv_heads_tp, a.d_head>>
             IN  QkvSuccess(hlo_reshape(proj.active_q, active_q_sizes),
                            hlo_reshape(proj.active_k, active_kv_sizes),
                            hlo_reshape(proj.active_v, active_kv_sizes),
                            <<"reshape", "reshape", "reshape">>)

\* shard over batch: gather the heads of all shards, keep a slice of the
\* rows.  peers[r] is the projection step of shard r.
qkv_shard_over_batch(a, pro, proj, peers) ==
    IF a.n_head = NoHead
    THEN QkvFailure("AssertionError", <<"constant">>)
    ELSE IF pro.n_heads_tp = 0
    THEN QkvFailure("ZeroDivisionError", <<"constant">>)
    ELSE LET tp_degree == a.n_head \div pro.n_heads_tp
             gathers   == <<"constant", "all_gather", "all_gather", "all_gather">>
         IN  IF tp_degree = 0
             THEN QkvFailure("ZeroDivisionError", gathers)
             ELSE LET full_q == hlo_all_gather([r \in 0..(tp_degree - 1) |-> peers[r].active_q], tp_degree)
                      full_k == hlo_all_gather([r \in 0..(tp_degree - 1) |-> peers[r].active_k], tp_degree)
                      full_v == hlo_all_gather([r \in 0..(tp_degree - 1) |-> peers[r].active_v], tp_degree)
                      n_seqs_per_nc   == pro.n_seqs \div tp_degree
                      slice_limit     == pro.n_active_tokens * n_seqs_per_nc
                      active_q_sizes  == <<pro.n_active_tokens, n_seqs_per_nc, a.n_head, a.d_head>>
                      active_kv_sizes == <<pro.n_active_tokens, n_seqs_per_nc, pro.n_kv_head, a.d_head>>
                  IN  QkvSuccess(
                          hlo_reshape(hlo_dynamic_slice_along(full_q, slice_limit, 0), active_q_sizes),
                          hlo_reshape(hlo_dynamic_slice_along(full_k, slice_limit, 0), active_kv_sizes),
                          hlo_reshape(hlo_dynamic_slice_along(full_v, slice_limit, 0), active_kv_sizes),
                          gathers \o <<"dynamic_slice", "dynamic_slice", "dynamic_slice",
                                       "reshape", "reshape", "reshape">>)

(***************************************************************************)
(* One call of query_key_value, statement group by statement group.  The   *)
(* graph is the list of the ops emitted so far.                            *)
(***************************************************************************)
QkvInputs ==
    { [n_seqs |-> n_seqs, n_active_tokens |-> n_active_tokens,
       hidden_size |-> hidden_size, d_head |-> d_head,
       fuse_qkv |-> fuse_qkv, shard_over_batch |-> shard_over_batch,
       width |-> width, kv_width |-> kv_width,
       n_head |-> n_head, n_kv_head |-> n_kv_head] :
         n_seqs \in 1..MaxSeqs, n_active_tokens \in 1..MaxTokens,
         hidden_size \in 1..MaxHidden, d_head \in 1..DHead,
         fuse_qkv \in BOOLEAN, shard_over_batch \in BOOLEAN,
         width \in 1..MaxWidth, kv_width \in 1..MaxWidth,
         n_head \in {NoHead} \cup (1..MaxNHead), n_kv_head \in 0..MaxNKvHead }

\* A fused weight holds three chunks of one width; shard over head reads
\* neither n_head nor n_kv_head.
QkvValid(inp) ==
    /\ inp.fuse_qkv => inp.kv_width = inp.width
    /\ ~inp.shard_over_batch => (inp.n_head = NoHead /\ inp.n_kv_head = 0)

QkvInit ==
    /\ \E inp \in QkvInputs :
         /\ QkvValid(inp)
         /\ qkv = [pc |-> "start", status |-> "running", inp |-> inp, graph |-> <<>>,
                   pro |-> None, proj |-> None, out |-> None]
    /\ cache_sizes = <<1, 1, 1, 1>>
    /\ key_storage = <<0>>
    /\ val_storage = <<0>>
    /\ upd = NoCall
    /\ history = <<>>
    /\ ctx = NoCall
    /\ att = NoCall

QkvPrologue ==
    /\ qkv.pc = "start"
    /\ LET pro == qkv_prologue(QkvArgs(qkv.inp, 0))
       IN  qkv' = [qkv EXCEPT !.pc = "prologue", !.pro = pro,
                              !.graph = qkv.graph \o pro.ops]
    /\ UNCHANGED <<cache_vars, ctx, att>>

QkvProject ==
    /\ qkv.pc = "prologue"
    /\ LET proj == qkv_project(QkvArgs(qkv.inp, 0), qkv.pro)
       IN  qkv' = [qkv EXCEPT !.pc = "projected", !.proj = proj,
                              !.graph = qkv.graph \o proj.ops]
    /\ UNCHANGED <<cache_vars, ctx, att>>

QkvShardOverBatch ==
    /\ qkv.pc = "projected"
    /\ qkv.inp.shard_over_batch
    /\ LET peers == [r \in 0..(MaxNHead - 1) |->
                        qkv_project(QkvArgs(qkv.inp, r), qkv_prologue(QkvArgs(qkv.inp, r)))]
           out   == qkv_shard_over_batch(QkvArgs(qkv.inp, 0), qkv.pro, qkv.proj, peers)
       IN  qkv' = [qkv EXCEPT !.pc = "done", !.status = out.status, !.out = out,
                              !.graph = qkv.graph \o out.ops]
    /\ UNCHANGED <<cache_vars, ctx, att>>

QkvShardOverHead ==
    /\ qkv.pc = "projected"
    /\ ~qkv.inp.shard_over_batch
    /\ LET out == qkv_shard_over_head(QkvArgs(qkv.inp, 0), qkv.pro, qkv.proj)
       IN  qkv' = [qkv EXCEPT !.pc = "done", !.status = out.status, !.out = out,
                              !.graph = qkv.graph \o out.ops]
    /\ UNCHANGED <<cache_vars, ctx, att>>

QkvNext == QkvPrologue \/ QkvProject \/ QkvShardOverBatch \/ QkvShardOverHead

SpecQKV == QkvInit /\ [][QkvNext]_vars

(***************************************************************************)
(* Properties of query_key_value.                                          *)
(***************************************************************************)
QkvCalled == qkv.status # None

\* The per-shard widths and head counts of the call.
QkvHiddenSizeTp == qkv.inp.width
QkvKvHiddenSizeTp == IF qkv.inp.fuse_qkv THEN qkv.inp.width ELSE qkv.inp.kv_width
QkvNHeadsTp == QkvHiddenSizeTp \div qkv.inp.d_head
QkvNRepeats == QkvHiddenSizeTp \div QkvKvHiddenSizeTp

\* Both widths are whole numbers of heads.
QkvWholeHeads ==
    /\ QkvHiddenSizeTp % qkv.inp.d_head = 0
    /\ QkvKvHiddenSizeTp % qkv.inp.d_head = 0

\* heads_per_shard mod repeat_factor # 0.
QkvBadRepeat ==
    /\ QkvCalled
    /\ QkvNRepeats > 0
    /\ QkvNHeadsTp % QkvNRepeats # 0

\* The ratio of per-shard query heads to per-shard kv heads is not integral.
QkvNonIntegralRatio ==
    /\ QkvCalled
    /\ QkvWholeHeads
    /\ QkvHiddenSizeTp % QkvKvHiddenSizeTp # 0

\* C7: a shard configuration with heads_per_shard mod repeat_factor # 0 is
\* rejected before any tensor op (transpose, reshape, projection matmul,
\* slice) has been emitted: no op is ever in the graph of such a call, and
\* the call ends in the assertion failure.
C7_RejectedBeforeAnyOp ==
    QkvBadRepeat =>
        /\ qkv.graph = <<>>
        /\ qkv.pc = "done" => qkv.status = "AssertionError"

\* The sizes of a returned tensor agree with the number of its elements.
QkvWellFormed(t) == Numel(t.sizes) = Len(t.data)

\* C8: query_key_value fails at graph construction whenever the repeat
\* factor is not an integer, in shard-over-head and in shard-over-batch
\* mode: no such call returns projections (not even counting as failures
\* the calls whose final reshapes disagree with the element counts).
C8_NonIntegralRatioFails ==
    (QkvNonIntegralRatio /\ qkv.pc = "done") =>
        ~(/\ qkv.status = "ok"
          /\ QkvWellFormed(qkv.out.active_q)
          /\ QkvWellFormed(qkv.out.active_k)
          /\ QkvWellFormed(qkv.out.active_v))

\* The three unfused projections of the same hidden states with the Q, K
\* and V weights and biases the fused weight and bias are made of.
QkvUnfusedReference ==
    qkv_project(QkvArgs([qkv.inp EXCEPT !.fuse_qkv = FALSE], 0), qkv.pro)

\* The columns start .. limit-1 of a chunk.
QkvChunk(s) == s[1]..(s[2] - 1)

QkvFusedProjected ==
    /\ QkvCalled
    /\ qkv.inp.fuse_qkv
    /\ qkv.pc \in {"projected", "done"}

\* C9: in fused mode the fused output is split into three equal contiguous
\* chunks in the order Q, K, V, pairwise disjoint and covering the fused
\* width, and the chunks equal the three unfused projections made with the
\* same weight values.
C9_FusedSplitEqualsUnfused ==
    QkvFusedProjected =>
        LET sl  == qkv.proj.slices
            w   == qkv.proj.fused_width
            ref == QkvUnfusedReference
        IN  /\ Len(sl) = 3
            /\ sl[1][1] = 0 /\ sl[1][2] = sl[2][1] /\ sl[2][2] = sl[3][1] /\ sl[3][2] = w
            /\ \A i \in 1..3 : sl[i][2] - sl[i][1] = w \div 3
            /\ \A i, j \in 1..3 : i # j => QkvChunk(sl[i]) \cap QkvChunk(sl[j]) = {}
            /\ QkvChunk(sl[1]) \cup QkvChunk(sl[2]) \cup QkvChunk(sl[3]) = 0..(w - 1)
            /\ qkv.proj.active_q = ref.active_q
            /\ qkv.proj.active_k = ref.active_k
            /\ qkv.proj.active_v = ref.active_v

C9_Witness ==
    /\ QkvFusedProjected
    /\ qkv.pc = "done"
    /\ qkv.status = "ok"
    /\ qkv.inp.width >= 2
    /\ qkv.inp.hidden_size >= 2
    /\ qkv.inp.n_seqs * qkv.inp.n_active_tokens >= 2
    /\ qkv.proj.active_k # qkv.proj.active_q
    /\ qkv.proj.active_k # qkv.proj.active_v

\* The projections of every shard, and what shard `rank` returns when the
\* heads are gathered and the rows sliced.
QkvPeers ==
    [r \in 0..(MaxNHead - 1) |->
        qkv_project(QkvArgs(qkv.inp, r), qkv_prologue(QkvArgs(qkv.inp, r)))]

QkvShardOut(rank) ==
    qkv_shard_over_batch(QkvArgs(qkv.inp, rank), qkv_prologue(QkvArgs(qkv.inp, rank)),
                         QkvPeers[rank], QkvPeers)

QkvTpDegree == qkv.inp.n_head \div QkvNHeadsTp

\* Row i (from 1) of a tensor read as rows of `width` elements.
QkvRowOf(t, width, i) == SubSeq(t.data, (i - 1) * width + 1, i * width)

\* The sequences whose projection `which` (all heads of it) is among the
\* rows shard `rank` returns.  The gathered projection has one row per
\* (token, sequence), row token * n_seqs + sequence, and its rows differ.
QkvHeldSeqs(rank, which) ==
    LET full  == hlo_all_gather([r \in 0..(QkvTpDegree - 1) |-> QkvPeers[r][which]],
                                QkvTpDegree)
        w     == full.sizes[2]
        out   == QkvShardOut(rank)[which]
        n_out == Len(out.data) \div w
    IN  { s \in 0..(qkv.inp.n_seqs - 1) :
            \E tok \in 0..(qkv.inp.n_active_tokens - 1), i \in 1..n_out :
                QkvRowOf(out, w, i) = QkvRowOf(full, w, tok * qkv.inp.n_seqs + s + 1) }

\* A finished shard-over-batch call of a configuration whose heads and
\* sequences divide evenly among the shards.
QkvBatchDone ==
    /\ QkvCalled
    /\ qkv.inp.shard_over_batch
    /\ qkv.pc = "done"
    /\ qkv.status = "ok"
    /\ QkvWholeHeads
    /\ qkv.inp.n_head = QkvTpDegree * QkvNHeadsTp
    /\ qkv.inp.n_seqs % QkvTpDegree = 0

\* C11: in shard-over-batch mode every shard returns Q, K and V of a subset
\* of the sequences with the full head count; the subsets of different
\* shards are pairwise disjoint and together cover all n_seqs sequences.
C11_ShardsPartitionSeqs ==
    QkvBatchDone =>
        \A which \in {"active_q", "active_k", "active_v"} :
            /\ \A r \in 0..(QkvTpDegree - 1) :
                   QkvShardOut(r).status = "ok"
            /\ QkvShardOut(0).active_q.sizes[3] = qkv.inp.n_head
            /\ \A r1, r2 \in 0..(QkvTpDegree - 1) :
                   r1 # r2 => QkvHeldSeqs(r1, which) \cap QkvHeldSeqs(r2, which) = {}
            /\ UNION { QkvHeldSeqs(r, which) : r \in 0..(QkvTpDegree - 1) }
                   = 0..(qkv.inp.n_seqs - 1)

(***************************************************************************)
(* context: O = softmax(S) @ V over split past and active scores.          *)
(*                                                                         *)
(* f32 numbers are held in fixed point: the number x is the integer        *)
(* x * ExpOne.  Scores are whole numbers 0..ScoreSpan, so a shifted score  *)
(* is in -ScoreSpan..0 and its exponential, taken to the base 2, is a      *)
(* whole multiple of 1/ExpOne.  The tensors of the call are f32 and so is  *)
(* the output dtype: the casts and converts keep every value.  n_kv_heads  *)
(* is 0 (no repeat of the values), the cache layout the default one.       *)
(***************************************************************************)
RECURSIVE Pow2(_)
Pow2(n) == IF n = 0 THEN 1 ELSE 2 * Pow2(n - 1)

ExpOne == Pow2(ScoreSpan)

\* f32.Constant(constant_value=c)
f32_Constant(c) == c * ExpOne

\* Exp of one shifted score.
f32_Exp(x) == Pow2(ScoreSpan + (x \div ExpOne))

LastDim(t) == t.sizes[Len(t.sizes)]

RowCount(t) == Numel(t.sizes) \div LastDim(t)

Row(t, r) == [k \in 1..LastDim(t) |-> t.data[(r - 1) * LastDim(t) + k]]

\* Reduce(x, minus_inf, dimensions=[3], to_apply=max_func)
hlo_reduce_max(x) ==
    Tensor(SubSeq(x.sizes, 1, 3),
           [r \in 1..RowCount(x) |-> MaxOf({ Row(x, r)[k] : k \in 1..LastDim(x) })])

\* Reduce(x, zero, dimensions=[3], to_apply=add_func)
hlo_reduce_add(x) ==
    Tensor(SubSeq(x.sizes, 1, 3),
           [r \in 1..RowCount(x) |-> SumTo(Row(x, r), LastDim(x))])

hlo_maximum(a, b) ==
    Tensor(a.sizes, [o \in 1..Len(a.data) |->
                        IF a.data[o] >= b.data[o] THEN a.data[o] ELSE b.data[o]])

\* Broadcast(r, dimensions=[0, 1, 2]) to a rank-4 shape.
hlo_broadcast012(r, sizes) ==
    Tensor(sizes, [o \in 1..Numel(sizes) |-> r.data[(o - 1) \div sizes[4] + 1]])

hlo_subtract(a, b) == Tensor(a.sizes, [o \in 1..Len(a.data) |-> a.data[o] - b.data[o]])

hlo_add(a, b) == Tensor(a.sizes, [o \in 1..Len(a.data) |-> a.data[o] + b.data[o]])

hlo_exp(x) == Tensor(x.sizes, [o \in 1..Len(x.data) |-> f32_Exp(x.data[o])])

\* Divide: every quotient is kept exact, as <<numerator, denominator>>.
hlo_divide(a, b) == Tensor(a.sizes, [o \in 1..Len(a.data) |-> <<a.data[o], b.data[o]>>])

\* dot_general of probabilities [s, h, t, n] and values [n, s, h, d]:
\* contracting n, batch dimensions s and h; the result is [s, h, t, d].
hlo_dot_general(lhs, rhs) ==
    LET s == lhs.sizes[1]
        h == lhs.sizes[2]
        t == lhs.sizes[3]
        n == lhs.sizes[4]
        d == rhs.sizes[4]
    IN  Tensor(<<s, h, t, d>>,
               [o \in 1..(s * h * t * d) |->
                   LET di == (o - 1) % d
                       ti == ((o - 1) \div d) % t
                       hi == ((o - 1) \div (d * t)) % h
                       si == (o - 1) \div (d * t * h)
                   IN  SumTo([k \in 1..n |->
                                 lhs.data[((si * h + hi) * t + ti) * n + k]
                                 * rhs.data[(((k - 1) * s + si) * h + hi) * d + di + 1]], n)])

\* Transpose(x, dimensions=[0, 2, 1, 3]) of [s, h, t, d]: the result is [s, t, h, d].
hlo_transpose0213(x) ==
    LET s == x.sizes[1]
        h == x.sizes[2]
        t == x.sizes[3]
        d == x.sizes[4]
    IN  Tensor(<<s, t, h, d>>,
               [o \in 1..(s * h * t * d) |->
                   LET di == (o - 1) % d
                       hi == ((o - 1) \div d) % h
                       ti == ((o - 1) \div (d * h)) % t
                       si == (o - 1) \div (d * h * t)
                   IN  x.data[((si * h + hi) * t + ti) * d + di + 1]])

(***************************************************************************)
(* mask: score = masked_fill(score, mask, constant_val).                   *)
(***************************************************************************)
constant_val_default == -30000

\* The mask broadcast to the sizes of the scores [s, h, t, n]: a rank-2
\* mask is [s, n] (broadcast_dimensions=[0, 3]), a rank-3 mask [s, t, n]
\* (broadcast_dimensions=[0, 2, 3]).
mask_broadcast(m, score_sizes) ==
    LET h == score_sizes[2]
        t == score_sizes[3]
        n == score_sizes[4]
    IN  [o \in 1..Numel(score_sizes) |->
            LET si == (o - 1) \div (h * t * n)
                ti == ((o - 1) \div n) % t
                ni == (o - 1) % n
            IN  IF Len(m.sizes) = 2
                THEN m.data[si * n + ni + 1]
                ELSE m.data[(si * t + ti) * n + ni + 1]]

\* mask with the two operands of the select exchanged.
mask_select_swapped(score, m, tp_degree, shard_over_batch, constant_val) ==
    LET const   == f32_Constant(constant_val)
        mask_br == mask_broadcast(m, score.sizes)
    IN  Tensor(score.sizes,
               [o \in 1..Len(score.data) |->
                   IF mask_br[o] THEN const ELSE score.data[o]])

mask(score, m, tp_degree, shard_over_batch, constant_val) ==
    LET const   == f32_Constant(constant_val)
        mask_br == mask_broadcast(m, score.sizes)
    IN  Tensor(score.sizes,
               [o \in 1..Len(score.data) |->
                   IF mask_br[o] THEN score.data[o] ELSE const])

(***************************************************************************)
(* The body of context, in the order of its statements.  An absent sparse  *)
(* mask (None) is NoMask.                                                  *)
(***************************************************************************)
NoMask == [given |-> FALSE, sizes |-> <<>>, data |-> <<>>]

\* assert (sparse_mask is None) == (active_sparse_mask is None)
ctx_both_or_neither(a) == a.sparse_mask.given = a.active_sparse_mask.given

\* The shared maximum of the past and the active scores of every row.
ctx_reduce_max(a) ==
    LET reduce_max        == hlo_reduce_max(a.past_scores)
        active_reduce_max == hlo_reduce_max(a.active_score)
    IN  hlo_maximum(reduce_max, active_reduce_max)

\* The past part: shifted scores, their exponentials, the sparse mask, the
\* row sums.
ctx_past_prob(a, reduce_max) ==
    LET reduce_max_br == hlo_broadcast012(reduce_max, a.past_scores.sizes)
        score_shifted == hlo_subtract(a.past_scores, reduce_max_br)
        exp_all       == hlo_exp(score_shifted)
        exp           == IF a.sparse_mask.given
                         THEN mask(exp_all, a.sparse_mask, 0, FALSE, constant_val_default)
                         ELSE exp_all
    IN  [exp |-> exp, denom |-> hlo_reduce_add(exp)]

\* The active part shifted by the maximum of the active scores alone.
ctx_active_prob_own_max(a, reduce_max, denom) ==
    LET own_max              == hlo_reduce_max(a.active_score)
        reduce_max_bra       == hlo_broadcast012(own_max, a.active_score.sizes)
        active_score_shifted == hlo_subtract(a.active_score, reduce_max_bra)
        active_prob          == hlo_exp(active_score_shifted)
        active_denom         == hlo_reduce_add(active_prob)
    IN  [active_prob |-> active_prob, denom |-> hlo_add(denom, active_denom)]

\* The active part, and the combined denominator.
ctx_active_prob(a, reduce_max, denom) ==
    LET reduce_max_bra       == hlo_broadcast012(reduce_max, a.active_score.sizes)
        active_score_shifted == hlo_subtract(a.active_score, reduce_max_bra)
        active_prob_all      == hlo_exp(active_score_shifted)
        active_prob          == IF a.active_sparse_mask.given
                                THEN mask(active_prob_all, a.active_sparse_mask, 0, FALSE,
                                          constant_val_default)
                                ELSE active_prob_all
        active_denom         == hlo_reduce_add(active_prob)
    IN  [active_prob |-> active_prob, denom |-> hlo_add(denom, active_denom)]

\* The weighted sums of the values, their sum, the division, the transpose.
ctx_output(a, past_prob, active_prob, denom) ==
    LET output        == hlo_dot_general(past_prob, a.past_values)
        active_output == hlo_dot_general(active_prob, a.active_values)
        total         == hlo_add(output, active_output)
        denom_br      == hlo_broadcast012(denom, total.sizes)
    IN  hlo_transpose0213(hlo_divide(total, denom_br))

(***************************************************************************)
(* context_combined: O = softmax(S) @ V over one score tensor that holds   *)
(* all positions.  The probabilities are kept exact: hlo.softmax yields    *)
(* the exponentials of the shifted scores (numer) and their row sums       *)
(* (denom), and the division by denom is carried out on the weighted sums. *)
(* A masked probability, filled with 0, is a numerator 0.                  *)
(***************************************************************************)
\* hlo.softmax over the last dimension.
hlo_softmax(score) ==
    LET reduce_max == hlo_reduce_max(score)
        shifted    == hlo_subtract(score, hlo_broadcast012(reduce_max, score.sizes))
        exp        == hlo_exp(shifted)
    IN  [numer |-> exp, denom |-> hlo_reduce_add(exp)]

\* The probabilities, and the sparse mask on top of them.
ctx_combined_probs(score, sparse_mask) ==
    LET probs == hlo_softmax(score)
    IN  IF sparse_mask.given
        THEN [probs EXCEPT !.numer = mask(probs.numer, sparse_mask, None, FALSE, 0)]
        ELSE probs

\* The weighted sum of the values and the transpose (n_kv_heads = 0).
ctx_combined_output(probs, values) ==
    LET result == hlo_dot_general(probs.numer, values)
    IN  hlo_transpose0213(hlo_divide(result, hlo_broadcast012(probs.denom, result.sizes)))

\* x and y side by side along the last dimension.
ConcatLast(x, y) ==
    LET wx == LastDim(x)
        wy == LastDim(y)
        n  == Len(x.sizes)
    IN  [x EXCEPT !.sizes = [x.sizes EXCEPT ![n] = wx + wy],
                  !.data  = [o \in 1..(Len(x.data) + Len(y.data)) |->
                                LET r == (o - 1) \div (wx + wy)
                                    c == (o - 1) % (wx + wy)
                                IN  IF c < wx THEN x.data[r * wx + c + 1]
                                    ELSE y.data[r * wy + (c - wx) + 1]]]

\* The arguments of context_combined that hold what the arguments of a
\* context call hold: past positions first, then the active ones.
CombinedArgs(a) ==
    [score       |-> ConcatLast(a.past_scores, a.active_score),
     values      |-> Tensor(<<a.past_values.sizes[1] + a.active_values.sizes[1], 1, 1, 1>>,
                            a.past_values.data \o a.active_values.data),
     sparse_mask |-> IF a.sparse_mask.given
                     THEN ConcatLast(a.sparse_mask, a.active_sparse_mask)
                     ELSE NoMask]

(***************************************************************************)
(* One call of context.  The scores are enumerated; value k of the past is *)
(* k and value j of the active tokens is 10 + j.                           *)
(***************************************************************************)
CtxScores(sizes) ==
    { Tensor(sizes, [o \in 1..Numel(sizes) |-> f32_Constant(d[o])]) :
          d \in [1..Numel(sizes) -> 0..ScoreSpan] }

CtxValues(n, tag) == Tensor(<<n, 1, 1, 1>>, [k \in 1..n |-> f32_Constant(tag + k)])

CtxMasks(sizes) ==
    { [given |-> TRUE, sizes |-> sizes, data |-> d] :
          d \in [1..Numel(sizes) -> BOOLEAN] }

CtxInit ==
    /\ \E t \in 1..MaxCtxTokens, p \in 1..MaxCtxPositions, rank \in {2, 3} :
         \E past_scores \in CtxScores(<<1, 1, t, p>>),
            active_score \in CtxScores(<<1, 1, t, t>>),
            sparse_mask \in {NoMask} \cup CtxMasks(IF rank = 2 THEN <<1, p>> ELSE <<1, t, p>>),
            active_sparse_mask \in {NoMask} \cup CtxMasks(IF rank = 2 THEN <<1, t>> ELSE <<1, t, t>>) :
              ctx = [pc |-> "start", status |-> "running",
                     inp |-> [past_scores |-> past_scores, active_score |-> active_score,
                              past_values |-> CtxValues(p, 0),
                              active_values |-> CtxValues(t, 10),
                              sparse_mask |-> sparse_mask,
                              active_sparse_mask |-> active_sparse_mask],
                     reduce_max |-> None, exp |-> None, active_prob |-> None,
                     denom |-> None, output |-> None,
                     probs |-> None, combined |-> None]
    /\ cache_sizes = <<1, 1, 1, 1>>
    /\ key_storage = <<0>>
    /\ val_storage = <<0>>
    /\ upd = NoCall
    /\ history = <<>>
    /\ qkv = NoCall
    /\ att = NoCall

CtxAssert ==
    /\ ctx.pc = "start"
    /\ ctx' = IF ctx_both_or_neither(ctx.inp)
              THEN [ctx EXCEPT !.pc = "checked"]
              ELSE [ctx EXCEPT !.pc = "done", !.status = "AssertionError"]
    /\ UNCHANGED <<cache_vars, qkv, att>>

CtxReduceMax ==
    /\ ctx.pc = "checked"
    /\ ctx' = [ctx EXCEPT !.pc = "max", !.reduce_max = ctx_reduce_max(ctx.inp)]
    /\ UNCHANGED <<cache_vars, qkv, att>>

CtxPastProb ==
    /\ ctx.pc = "max"
    /\ LET r == ctx_past_prob(ctx.inp, ctx.reduce_max)
       IN  ctx' = [ctx EXCEPT !.pc = "past", !.exp = r.exp, !.denom = r.denom]
    /\ UNCHANGED <<cache_vars, qkv, att>>

CtxActiveProb ==
    /\ ctx.pc = "past"
    /\ LET r == ctx_active_prob(ctx.inp, ctx.reduce_max, ctx.denom)
       IN  ctx' = [ctx EXCEPT !.pc = "active", !.active_prob = r.active_prob,
                              !.denom = r.denom]
    /\ UNCHANGED <<cache_vars, qkv, att>>

CtxOutput ==
    /\ ctx.pc = "active"
    /\ ctx' = [ctx EXCEPT !.pc = "done", !.status = "ok",
                          !.output = ctx_output(ctx.inp, ctx.exp, ctx.active_prob, ctx.denom)]
    /\ UNCHANGED <<cache_vars, qkv, att>>

\* context_combined on the same scores and values, after context returned.
CtxCombinedProbs ==
    /\ ctx.pc = "done"
    /\ ctx.status = "ok"
    /\ LET c == CombinedArgs(ctx.inp)
       IN  ctx' = [ctx EXCEPT !.pc = "probs",
                              !.probs = ctx_combined_probs(c.score, c.sparse_mask)]
    /\ UNCHANGED <<cache_vars, qkv, att>>

CtxCombinedOutput ==
    /\ ctx.pc = "probs"
    /\ LET c == CombinedArgs(ctx.inp)
       IN  ctx' = [ctx EXCEPT !.pc = "combined",
                              !.combined = ctx_combined_output(ctx.probs, c.values)]
    /\ UNCHANGED <<cache_vars, qkv, att>>

CtxNext ==
    \/ CtxAssert \/ CtxReduceMax \/ CtxPastProb \/ CtxActiveProb \/ CtxOutput
    \/ CtxCombinedProbs \/ CtxCombinedOutput

SpecContext == CtxInit /\ [][CtxNext]_vars

(***************************************************************************)
(* Properties of context.                                                  *)
(***************************************************************************)
\* A finished call that was given both sparse masks.
CtxSparseDone ==
    /\ ctx.status = "ok"
    /\ ctx.pc = "done"
    /\ ctx.inp.sparse_mask.given
    /\ ctx.inp.active_sparse_mask.given

\* Where the sparse masks keep a position of the past, of the active scores.
CtxPastKept == mask_broadcast(ctx.inp.sparse_mask, ctx.inp.past_scores.sizes)
CtxActiveKept == mask_broadcast(ctx.inp.active_sparse_mask, ctx.inp.active_score.sizes)

\* The exponentials of row r the masks keep, each times weight[k].
CtxKeptSum(x, kept, r, weight) ==
    SumTo([k \in 1..LastDim(x) |->
              IF kept[(r - 1) * LastDim(x) + k] THEN Row(x, r)[k] * weight[k] ELSE 0],
          LastDim(x))

CtxOnes(n) == [k \in 1..n |-> 1]

\* The largest score of row r, past and active, whatever the masks.
CtxRowMax(r) ==
    MaxOf({ Row(ctx.inp.past_scores, r)[k] : k \in 1..LastDim(ctx.inp.past_scores) }
          \cup { Row(ctx.inp.active_score, r)[k] : k \in 1..LastDim(ctx.inp.active_score) })

\* C10: with both sparse masks supplied, every position a sparse mask
\* excludes has its exponentiated score replaced by zero, so it adds
\* nothing to the combined denominator nor to the weighted sum of the
\* values, and the shared row maximum is that of all the scores.
C10_SparseExcludedZero ==
    CtxSparseDone =>
        LET n_rows == RowCount(ctx.inp.past_scores)
            p      == LastDim(ctx.inp.past_scores)
            t      == LastDim(ctx.inp.active_score)
        IN  /\ \A o \in 1..Len(ctx.exp.data) : ~CtxPastKept[o] => ctx.exp.data[o] = 0
            /\ \A o \in 1..Len(ctx.active_prob.data) :
                   ~CtxActiveKept[o] => ctx.active_prob.data[o] = 0
            /\ \A r \in 1..n_rows :
                 /\ ctx.denom.data[r] =
                        CtxKeptSum(ctx.exp, CtxPastKept, r, CtxOnes(p))
                        + CtxKeptSum(ctx.active_prob, CtxActiveKept, r, CtxOnes(t))
                 /\ ctx.output.data[r][1] =
                        CtxKeptSum(ctx.exp, CtxPastKept, r, ctx.inp.past_values.data)
                        + CtxKeptSum(ctx.active_prob, CtxActiveKept, r,
                                     ctx.inp.active_values.data)
                 /\ ctx.reduce_max.data[r] = CtxRowMax(r)

\* Both variants have returned for a call without sparse masks.
CtxBothDone ==
    /\ ctx.status = "ok"
    /\ ctx.pc = "combined"
    /\ ~ctx.inp.sparse_mask.given
    /\ ~ctx.inp.active_sparse_mask.given

\* softmax(S) @ V of row r over the past positions followed by the active
\* ones, as <<numerator, denominator>>, with no shift of the scores.
CtxReference(r) ==
    LET c == CombinedArgs(ctx.inp)
        n == LastDim(c.score)
        w == [k \in 1..n |-> Pow2(Row(c.score, r)[k] \div ExpOne)]
    IN  <<SumTo([k \in 1..n |-> w[k] * c.values.data[k]], n), SumTo(w, n)>>

\* Two quotients <<numerator, denominator>> are the same number.
SameQuotient(x, y) == x[2] # 0 /\ y[2] # 0 /\ x[1] * y[2] = y[1] * x[2]

\* C12: with the same scores and values and no sparse masks, the split
\* context and the combined context return equal outputs, both equal to
\* softmax(S) @ V over the concatenated positions.
C12_SplitEqualsCombined ==
    CtxBothDone =>
        /\ ctx.output.sizes = ctx.combined.sizes
        /\ \A r \in 1..Len(ctx.output.data) :
             /\ SameQuotient(ctx.output.data[r], ctx.combined.data[r])
             /\ SameQuotient(ctx.output.data[r], CtxReference(r))
             /\ SameQuotient(ctx.combined.data[r], CtxReference(r))

C12_Witness ==
    /\ CtxBothDone
    /\ Len(ctx.output.data) = 2
    /\ LastDim(ctx.inp.past_scores) = 2
    /\ ctx.reduce_max.data[1] > MaxOf({ Row(ctx.inp.active_score, 1)[k] : k \in 1..2 })
    /\ ctx.reduce_max.data[2] > MaxOf({ Row(ctx.inp.past_scores, 2)[k] : k \in 1..2 })
    /\ ctx.output.data[1] # ctx.output.data[2]

(***************************************************************************)
(* score: S = Q @ K, with the keys repeated for grouped-query attention.   *)
(* query is [n_active_tokens, n_seqs, n_heads, d_head], keys are           *)
(* [n_positions, n_seqs, n_kv_heads, d_head] (the default cache layout).   *)
(***************************************************************************)
\* hlo.repeat_kv(keys, n_repeats, repeat_dim=2): every kv head n_repeats
\* times in a row.
hlo_repeat_kv(keys, n_repeats) ==
    LET p  == keys.sizes[1]
        s  == keys.sizes[2]
        kv == keys.sizes[3]
        d  == keys.sizes[4]
        h  == kv * n_repeats
    IN  Tensor(<<p, s, h, d>>,
               [o \in 1..(p * s * h * d) |->
                   LET di   == (o - 1) % d
                       hi   == ((o - 1) \div d) % h
                       rest == (o - 1) \div (d * h)
                   IN  keys.data[(rest * kv + (hi \div n_repeats)) * d + di + 1]])

\* hlo.dot_general(query, keys) contracting d_head (dimension 3 of both),
\* batch dimensions [1, 2] (sequence, head): the result is
\* [n_seqs, n_heads, n_active_tokens, n_positions].  The batch dimensions
\* of the two operands must agree.
hlo_dot_general_qk(query, keys) ==
    LET t == query.sizes[1]
        s == query.sizes[2]
        h == query.sizes[3]
        d == query.sizes[4]
        p == keys.sizes[1]
    IN  IF keys.sizes[2] # s \/ keys.sizes[3] # h \/ keys.sizes[4] # d
        THEN [status |-> "batch_mismatch", sizes |-> <<>>, data |-> <<>>]
        ELSE [status |-> "ok",
              sizes  |-> <<s, h, t, p>>,
              data   |-> [o \in 1..(s * h * t * p) |->
                            LET pi == (o - 1) % p
                                ti == ((o - 1) \div p) % t
                                hi == ((o - 1) \div (p * t)) % h
                                si == (o - 1) \div (p * t * h)
                            IN  SumTo([x \in 1..d |->
                                          query.data[((ti * s + si) * h + hi) * d + x]
                                          * keys.data[((pi * s + si) * h + hi) * d + x]], d)]]

\* The repeat factor taken from the n_kv_heads argument.
score_repeat_by_argument(query, keys, n_kv_heads, shard_over_batch) ==
    IF n_kv_heads # 0
    THEN hlo_repeat_kv(keys, query.sizes[3] \div n_kv_heads)
    ELSE keys

\* The keys handed to the dot product.
score_repeat(query, keys, n_kv_heads, shard_over_batch) ==
    IF n_kv_heads # 0
    THEN LET n_repeats == IF shard_over_batch
                          THEN query.sizes[3] \div keys.sizes[3]
                          ELSE query.sizes[3] \div keys.sizes[3]
         IN  hlo_repeat_kv(keys, n_repeats)
    ELSE keys

score(query, keys, n_kv_heads, shard_over_batch) ==
    hlo_dot_general_qk(query, score_repeat(query, keys, n_kv_heads, shard_over_batch))

(***************************************************************************)
(* One call of score.  Element j of the query is j, of the keys 100 + j.   *)
(***************************************************************************)
ScoreInit ==
    /\ \E t \in 1..MaxTokens, s \in 1..MaxSeqs, h \in 1..MaxNHead, kv \in 1..MaxNKvHead,
          d \in 1..DHead, p \in 1..MaxPositions, n_kv_heads \in 0..MaxNKvHead,
          shard_over_batch \in BOOLEAN :
         att = [kind |-> "score", pc |-> "start", status |-> "running",
                inp |-> [query  |-> Tensor(<<t, s, h, d>>, [j \in 1..(t * s * h * d) |-> j]),
                         keys   |-> Tensor(<<p, s, kv, d>>,
                                           [j \in 1..(p * s * kv * d) |-> 100 + j]),
                         n_kv_heads |-> n_kv_heads,
                         shard_over_batch |-> shard_over_batch],
                keys_r |-> None, result |-> None]
    /\ cache_sizes = <<1, 1, 1, 1>>
    /\ key_storage = <<0>>
    /\ val_storage = <<0>>
    /\ upd = NoCall
    /\ history = <<>>
    /\ qkv = NoCall
    /\ ctx = NoCall

ScoreRepeat ==
    /\ att.pc = "start"
    /\ att' = [att EXCEPT !.pc = "repeated",
                          !.keys_r = score_repeat(att.inp.query, att.inp.keys,
                                                  att.inp.n_kv_heads, att.inp.shard_over_batch)]
    /\ UNCHANGED <<cache_vars, qkv, ctx>>

ScoreDot ==
    /\ att.pc = "repeated"
    /\ LET result == hlo_dot_general_qk(att.inp.query, att.keys_r)
       IN  att' = [att EXCEPT !.pc = "done", !.status = result.status, !.result = result]
    /\ UNCHANGED <<cache_vars, qkv, ctx>>

ScoreNext == ScoreRepeat \/ ScoreDot

SpecScore == ScoreInit /\ [][ScoreNext]_vars

(***************************************************************************)
(* Properties of score.                                                    *)
(***************************************************************************)
ScoreRepeated == att.status # None /\ att.pc \in {"repeated", "done"}

ScoreQHeads == att.inp.query.sizes[3]
ScoreKvHeads == att.inp.keys.sizes[3]

\* The keys of head h of a key tensor, over positions, sequences and d_head.
ScoreKeyHead(keys, h) ==
    [i \in 1..(keys.sizes[1] * keys.sizes[2] * keys.sizes[4]) |->
        keys.data[(((i - 1) \div keys.sizes[4]) * keys.sizes[3] + h) * keys.sizes[4]
                  + ((i - 1) % keys.sizes[4]) + 1]]

\* The head slots of the keys handed to the dot product that hold kv head g.
ScoreSlots(g) ==
    { h \in 0..(att.keys_r.sizes[3] - 1) :
          ScoreKeyHead(att.keys_r, h) = ScoreKeyHead(att.inp.keys, g) }

ScoreEveryKvHeadRepeated ==
    /\ ScoreQHeads % ScoreKvHeads = 0
    /\ att.keys_r.sizes[3] = ScoreQHeads
    /\ \A g \in 0..(ScoreKvHeads - 1) :
           Cardinality(ScoreSlots(g)) = ScoreQHeads \div ScoreKvHeads

\* C13 as stated: whenever the keys have fewer kv heads than the query has
\* heads, the keys handed to the dot product are the keys repeated by the
\* integer factor query heads / kv heads, every kv head in that many slots.
C13_Original ==
    (ScoreRepeated /\ ScoreKvHeads < ScoreQHeads) => ScoreEveryKvHeadRepeated

\* C13: with n_kv_heads # 0 and a kv-head count that divides the query
\* head count, the keys handed to the dot product have the query's head
\* count and hold every kv head in query heads / kv heads slots, and the
\* dot product is well formed; with n_kv_heads = 0 the keys are handed to
\* the dot product as they are.
C13_RepeatedWhenGrouped ==
    ScoreRepeated =>
        /\ (att.inp.n_kv_heads # 0 /\ ScoreQHeads % ScoreKvHeads = 0) =>
               /\ ScoreEveryKvHeadRepeated
               /\ att.pc = "done" => att.status = "ok"
        /\ att.inp.n_kv_heads = 0 => att.keys_r = att.inp.keys

C13_Witness ==
    /\ ScoreRepeated
    /\ att.pc = "done"
    /\ att.status = "ok"
    /\ att.inp.n_kv_heads # 0
    /\ ScoreKvHeads = 2
    /\ ScoreQHeads = 4
    /\ Cardinality(ScoreSlots(1)) = 2

(***************************************************************************)
(* One call of mask on scores [n_seqs, n_heads, n_active_tokens,           *)
(* n_positions] whose element j is j + base, with a mask of rank 2         *)
(* [n_seqs, n_positions] or of rank 3 [n_seqs, n_active_tokens,            *)
(* n_positions].  The call names no constant_val (the default is used) or  *)
(* passes constant_val=0.                                                  *)
(***************************************************************************)
MaskInit ==
    /\ \E s \in 1..MaxSeqs, h \in 1..MaxNKvHead, t \in 1..MaxTokens,
          n \in 1..MaxCtxPositions, rank \in {2, 3}, base \in {0, -30001},
          by_default \in BOOLEAN :
         \E m \in CtxMasks(IF rank = 2 THEN <<s, n>> ELSE <<s, t, n>>) :
            att = [kind |-> "mask", pc |-> "start", status |-> "running",
                   inp |-> [score |-> Tensor(<<s, h, t, n>>,
                                             [j \in 1..(s * h * t * n) |->
                                                 f32_Constant(j + base)]),
                            mask  |-> m,
                            by_default |-> by_default],
                   result |-> None]
    /\ cache_sizes = <<1, 1, 1, 1>>
    /\ key_storage = <<0>>
    /\ val_storage = <<0>>
    /\ upd = NoCall
    /\ history = <<>>
    /\ qkv = NoCall
    /\ ctx = NoCall

Mask ==
    /\ att.pc = "start"
    /\ att' = [att EXCEPT !.pc = "done", !.status = "ok",
                          !.result = IF att.inp.by_default
                                     THEN mask(att.inp.score, att.inp.mask, None, FALSE,
                                               constant_val_default)
                                     ELSE mask(att.inp.score, att.inp.mask, None, FALSE, 0)]
    /\ UNCHANGED <<cache_vars, qkv, ctx>>

MaskNext == Mask

SpecMask == MaskInit /\ [][MaskNext]_vars

(***************************************************************************)
(* Properties of mask.                                                     *)
(***************************************************************************)
MaskDone == att.status # None /\ att.pc = "done"

\* Element [si, hi, ti, ni] of a rank-4 tensor.
MaskAt4(x, si, hi, ti, ni) ==
    x.data[((si * x.sizes[2] + hi) * x.sizes[3] + ti) * x.sizes[4] + ni + 1]

\* Whether the mask keeps entry [si, hi, ti, ni] of the scores.
MaskKeeps(m, si, ti, ni) ==
    IF Len(m.sizes) = 2
    THEN m.data[si * m.sizes[2] + ni + 1]
    ELSE m.data[(si * m.sizes[2] + ti) * m.sizes[3] + ni + 1]

\* C15: at every entry where the broadcast mask is false the result of mask
\* is the fill value (-30000 when the call names none), and at every entry
\* where it is true the result is the score.
C15_MaskedFill ==
    MaskDone =>
        LET scores == att.inp.score
            fill  == IF att.inp.by_default THEN -30000 * ExpOne ELSE 0
        IN  /\ att.result.sizes = scores.sizes
            /\ \A si \in 0..(scores.sizes[1] - 1), hi \in 0..(scores.sizes[2] - 1),
                  ti \in 0..(scores.sizes[3] - 1), ni \in 0..(scores.sizes[4] - 1) :
                   MaskAt4(att.result, si, hi, ti, ni) =
                       IF MaskKeeps(att.inp.mask, si, ti, ni)
                       THEN MaskAt4(scores, si, hi, ti, ni)
                       ELSE fill

C15_Witness ==
    /\ MaskDone
    /\ att.inp.by_default
    /\ Len(att.inp.mask.sizes) = 3
    /\ att.inp.score.sizes = <<2, 2, 2, 2>>
    /\ MaskKeeps(att.inp.mask, 1, 0, 1)
    /\ ~MaskKeeps(att.inp.mask, 1, 1, 1)
    /\ MaskAt4(att.result, 1, 1, 1, 1) = -30000 * ExpOne
    /\ MaskAt4(att.result, 1, 1, 0, 1) = MaskAt4(att.inp.score, 1, 1, 0, 1)

====
